---- MODULE Spec2Model ----
(***************************************************************************)
(* State-machine model of the vnstock MCP server (src/vnstock_mcp/        *)
(* server.py).  One tool invocation is followed from the call to the      *)
(* returned value.  The market-data library and the optimization library  *)
(* are the environment: every call into them answers nondeterministically *)
(* (rows, no rows, None, or a raised exception).                          *)
(*                                                                         *)
(* Strings built by the tools are modelled as sequences of words          *)
(* (punctuation is a word of its own), with the interpolated values as    *)
(* single words, so that a prefix or a pattern of a message can be tested.*)
(***************************************************************************)
EXTENDS Integers, Sequences, FiniteSets, TLC

\* ------------------------------------------------------------------ bounds
\* Longest symbols list handed to a portfolio tool.
MaxSymbols == 2
\* Invocations the server handles at a time.
MaxTasks == 2

\* ------------------------------------------------------------------ inputs
Symbols == {"VCI", "VNM"}
IndexSymbols == {"VNINDEX", "vnindex", "DJI"}
Dates == {"d1", "d2"}
ClosePrices == {"21.5"}
NaN == "NaN"
StartDates == {"2024-01-01"}
EndDates == {"2024-01-31"}
FundTypes == {"", "STOCK"}
ReturnMethods == {"mean_historical", "ema_historical"}
CovarianceMethods ==
  {"sample_cov", "ledoit_wolf", "exp_cov", "semicovariance", "unknown_cov"}
InfoTypeInputs ==
  {"overview", "shareholders", "officers", "subsidiaries", "events", "news",
   "reports", "ratio_summary", "trading_stats", "bogus"}
\* The reporting years of the rows a fundamentals fetch may return, in the
\* order the source returned them.
YearRows == {<<>>, <<2022, 2023>>, <<2023, 2022>>}

\* ------------------------------------------------------------------ tools
HistoryTools ==
  {"get_stock_history", "get_forex_history", "get_crypto_history"}
FinanceTools ==
  {"get_income_statement", "get_balance_sheet", "get_cash_flow"}
SyncTools ==
  {"get_sjc_gold_price", "get_btmc_gold_price", "get_vcb_exchange_rate"}
FundTools ==
  {"get_fund_listing", "search_funds", "get_fund_nav_report",
   "get_fund_top_holdings", "get_fund_industry_allocation",
   "get_fund_asset_allocation"}
AsyncDataTools ==
  HistoryTools \cup FinanceTools \cup FundTools \cup
  {"get_index_history", "get_financial_ratios", "get_dividend_history",
   "get_company_info"}
DataTools == AsyncDataTools \cup SyncTools
PortfolioTools ==
  {"calculate_returns", "optimize_portfolio", "full_portfolio_optimization"}
OptimizingTools == {"optimize_portfolio", "full_portfolio_optimization"}
\* Tools that build a data-source client inside their try block before fetching.
ClientTools ==
  HistoryTools \cup FinanceTools \cup
  {"get_index_history", "get_financial_ratios", "get_dividend_history",
   "get_company_info"}

\* ------------------------------------------------------------- exceptions
\* An exception is its class and its message.  OptimizationError is the
\* optimizer library's own class; ValueError stands for every other
\* subclass of Exception.
NoExc == [type |-> "", msg |-> ""]
ExcMsgs == {"boom"}
OtherError(m) == [type |-> "ValueError", msg |-> m]
OptimizationError(m) == [type |-> "OptimizationError", msg |-> m]
OtherErrors == {OtherError(m) : m \in ExcMsgs}
SolverErrors == OtherErrors \cup {OptimizationError(m) : m \in ExcMsgs}

\* isinstance(e, cls) for the two classes named in except clauses.
IsInstance(e, cls) ==
  CASE cls = "Exception" -> e.type # ""
    [] cls = "OptimizationError" -> e.type = "OptimizationError"
    [] OTHER -> FALSE

\* ------------------------------------------------------------ return values
NoJson == [empty |-> TRUE]
NoResult == [kind |-> "none", text |-> <<>>, json |-> NoJson]
Text(words) == [kind |-> "text", text |-> words, json |-> NoJson]
Json(obj) == [kind |-> "json", text |-> <<>>, json |-> obj]

\* ------------------------------------------------------------- arguments
NoArgs ==
  [symbol |-> "", start_date |-> "", end_date |-> "", info_type |-> "",
   date |-> "", fund_type |-> "", symbols |-> <<>>, method |-> "",
   covariance_method |-> "", log_returns |-> FALSE,
   risk_free_rate |-> "", risk_aversion |-> ""]

SymbolLists ==
  UNION {[1..n -> Symbols] : n \in 0..MaxSymbols}

RangeArgs(syms) ==
  {[NoArgs EXCEPT !.symbol = s, !.start_date = b, !.end_date = e] :
     s \in syms, b \in StartDates, e \in EndDates}

PortfolioArgs ==
  {[NoArgs EXCEPT !.symbols = l, !.start_date = b, !.end_date = e,
                  !.risk_free_rate = "0.02"] :
     l \in SymbolLists, b \in StartDates, e \in EndDates}

ArgsOf(t) ==
  CASE t \in HistoryTools -> RangeArgs(Symbols)
    [] t = "get_index_history" -> RangeArgs(IndexSymbols)
    [] t \in FinanceTools \cup {"get_financial_ratios", "get_dividend_history"}
         -> {[NoArgs EXCEPT !.symbol = s] : s \in Symbols}
    [] t = "get_sjc_gold_price" ->
         {[NoArgs EXCEPT !.date = d] : d \in {"None"} \cup StartDates}
    [] t = "get_btmc_gold_price" -> {NoArgs}
    [] t = "get_vcb_exchange_rate" ->
         {[NoArgs EXCEPT !.date = d] : d \in StartDates}
    [] t = "get_company_info" ->
         {[NoArgs EXCEPT !.symbol = s, !.info_type = i] :
            s \in Symbols, i \in InfoTypeInputs}
    [] t = "get_fund_listing" ->
         {[NoArgs EXCEPT !.fund_type = f] : f \in FundTypes}
    [] t \in FundTools \ {"get_fund_listing"} ->
         {[NoArgs EXCEPT !.symbol = s] : s \in Symbols}
    [] t = "calculate_returns" ->
         {[a EXCEPT !.method = m] : a \in PortfolioArgs, m \in ReturnMethods}
    [] t = "optimize_portfolio" ->
         {[a EXCEPT !.covariance_method = c] :
            a \in PortfolioArgs, c \in CovarianceMethods}
    [] t = "full_portfolio_optimization" ->
         {[a EXCEPT !.covariance_method = c, !.risk_aversion = "1.0"] :
            a \in PortfolioArgs, c \in CovarianceMethods}

\* --------------------------------------------------------------- messages
\* date_str of get_sjc_gold_price: the date, or "current date" when None.
DateStr(a) == IF a.date = "None" THEN <<"current", "date">> ELSE <<a.date>>

Between(a) == <<"between", a.start_date, "and", a.end_date>>

\* The string a data tool returns when its fetch gave None or no rows.
NoDataText(t, a) ==
  CASE t = "get_stock_history" ->
         <<"No", "data", "found", "for", a.symbol>> \o Between(a)
    [] t = "get_forex_history" ->
         <<"No", "forex", "data", "found", "for", a.symbol>> \o Between(a)
    [] t = "get_crypto_history" ->
         <<"No", "crypto", "data", "found", "for", a.symbol>> \o Between(a)
    [] t = "get_index_history" ->
         <<"No", "index", "data", "found", "for", a.symbol>> \o Between(a)
    [] t = "get_income_statement" ->
         <<"No", "income", "statement", "data", "found", "for", a.symbol>>
    [] t = "get_balance_sheet" ->
         <<"No", "balance", "sheet", "data", "found", "for", a.symbol>>
    [] t = "get_cash_flow" ->
         <<"No", "cash", "flow", "data", "found", "for", a.symbol>>
    [] t = "get_financial_ratios" ->
         <<"No", "financial", "ratio", "data", "found", "for", a.symbol>>
    [] t = "get_dividend_history" ->
         <<"No", "dividend", "data", "found", "for", a.symbol>>
    [] t = "get_sjc_gold_price" ->
         <<"No", "SJC", "gold", "price", "data", "found", "for">> \o DateStr(a)
    [] t = "get_btmc_gold_price" ->
         <<"No", "BTMC", "gold", "price", "data", "found">>
    [] t = "get_vcb_exchange_rate" ->
         <<"No", "VCB", "exchange", "rate", "data", "found", "for", a.date>>
    [] t = "get_company_info" ->
         <<"No", a.info_type, "data", "found", "for", a.symbol>>
    [] t = "get_fund_listing" ->
         <<"No", "funds", "found", "for", "type", ":", a.fund_type>>
    [] t = "search_funds" ->
         <<"No", "funds", "found", "matching", ":", a.symbol>>
    [] t = "get_fund_nav_report" ->
         <<"No", "NAV", "data", "found", "for", "fund", ":", a.symbol>>
    [] t = "get_fund_top_holdings" ->
         <<"No", "top", "holdings", "data", "found", "for", "fund", ":",
           a.symbol>>
    [] t = "get_fund_industry_allocation" ->
         <<"No", "industry", "allocation", "data", "found", "for", "fund",
           ":", a.symbol>>
    [] t = "get_fund_asset_allocation" ->
         <<"No", "asset", "allocation", "data", "found", "for", "fund", ":",
           a.symbol>>

\* The words before the colon in the string of a tool's `except Exception`.
ErrorDoing(t, a) ==
  CASE t = "get_stock_history" -> <<"Error", "fetching", "stock", "data">>
    [] t = "get_forex_history" -> <<"Error", "fetching", "forex", "data">>
    [] t = "get_crypto_history" -> <<"Error", "fetching", "crypto", "data">>
    [] t = "get_index_history" -> <<"Error", "fetching", "index", "data">>
    [] t = "get_income_statement" ->
         <<"Error", "fetching", "income", "statement", "for", a.symbol>>
    [] t = "get_balance_sheet" ->
         <<"Error", "fetching", "balance", "sheet", "for", a.symbol>>
    [] t = "get_cash_flow" ->
         <<"Error", "fetching", "cash", "flow", "for", a.symbol>>
    [] t = "get_financial_ratios" ->
         <<"Error", "fetching", "financial", "ratios", "for", a.symbol>>
    [] t = "get_dividend_history" ->
         <<"Error", "fetching", "dividend", "history", "for", a.symbol>>
    [] t = "get_sjc_gold_price" ->
         <<"Error", "fetching", "SJC", "gold", "prices">>
    [] t = "get_btmc_gold_price" ->
         <<"Error", "fetching", "BTMC", "gold", "prices">>
    [] t = "get_vcb_exchange_rate" ->
         <<"Error", "fetching", "VCB", "exchange", "rates">>
    [] t = "get_company_info" ->
         <<"Error", "fetching", a.info_type, "for", a.symbol>>
    [] t = "calculate_returns" -> <<"Error", "calculating", "returns">>
    [] t = "optimize_portfolio" -> <<"Error", "optimizing", "portfolio">>
    [] t = "full_portfolio_optimization" ->
         <<"Error", "in", "full", "portfolio", "optimization">>
    [] t = "get_fund_listing" -> <<"Error", "fetching", "fund", "listing">>
    [] t = "search_funds" -> <<"Error", "searching", "funds">>
    [] t = "get_fund_nav_report" ->
         <<"Error", "fetching", "NAV", "report", "for", a.symbol>>
    [] t = "get_fund_top_holdings" ->
         <<"Error", "fetching", "top", "holdings", "for", a.symbol>>
    [] t = "get_fund_industry_allocation" ->
         <<"Error", "fetching", "industry", "allocation", "for", a.symbol>>
    [] t = "get_fund_asset_allocation" ->
         <<"Error", "fetching", "asset", "allocation", "for", a.symbol>>

ErrorText(t, a, e) == ErrorDoing(t, a) \o <<":", e.msg>>

OptimizationFailedText(e) == <<"Optimization", "failed", ":", e.msg>>

\* A tool's outermost except clauses, tried in order; an exception no clause
\* matches leaves the tool.
Raised(e) == [kind |-> "raised", text |-> <<e.type, e.msg>>, json |-> NoJson]

\* Mutant: the outermost handler catches OptimizationError only.
OuterExceptOptimizationOnly(t, a, e) ==
  IF IsInstance(e, "OptimizationError")
  THEN Text(OptimizationFailedText(e))
  ELSE Raised(e)

OuterExcept(t, a, e) ==
  IF t = "optimize_portfolio" /\ IsInstance(e, "OptimizationError")
  THEN Text(OptimizationFailedText(e))
  ELSE IF IsInstance(e, "Exception")
       THEN Text(ErrorText(t, a, e))
       ELSE Raised(e)

\* get_company_info's answer to an info_type it does not know.
InfoTypes ==
  <<"overview", "shareholders", "officers", "subsidiaries", "events", "news",
    "reports", "ratio_summary", "trading_stats">>

Range(seq) == {seq[i] : i \in DOMAIN seq}

RECURSIVE JoinComma(_)
JoinComma(seq) ==
  IF Len(seq) = 0 THEN <<>>
  ELSE IF Len(seq) = 1 THEN seq
  ELSE <<seq[1], ",">> \o JoinComma(Tail(seq))

InvalidInfoTypeText(a) ==
  <<"Invalid", "info_type", "'", a.info_type, "'", ".", "Valid", "types", ":">>
    \o JoinComma(InfoTypes)

\* The portfolio tools' strings.
SymbolNoDataText(a, sym) ==
  <<"No", "data", "found", "for", sym>> \o Between(a)
SymbolErrorText(sym, e) ==
  <<"Error", "fetching", "data", "for", sym, ":", e.msg>>
NoSymbolsText == <<"No", "data", "found", "for", "any", "symbols">>
NoCompleteDataText ==
  <<"No", "complete", "data", "available", "after", "cleaning", "missing",
    "values">>

\* ------------------------------------------------------------ environment
\* What a call into the market-data library gives back.
RaiseResp(e) == [kind |-> "raise", exc |-> e, cols |-> {}, rows |-> <<>>]
NoneResp == [kind |-> "none", exc |-> NoExc, cols |-> {}, rows |-> <<>>]
Frame(c, r) == [kind |-> "frame", exc |-> NoExc, cols |-> c, rows |-> r]

\* Mutant: only None counts as no data; a frame without rows does not.
IsEmptyNoneOnly(df) == df.kind = "none"

\* df is None or df.empty
IsEmpty(df) == df.kind = "none" \/ DOMAIN df.rows = {}

\* Answers of the single fetch of a data tool: rows are yearReport values.
DataResponses ==
  {RaiseResp(e) : e \in OtherErrors} \cup {NoneResp} \cup
  {Frame(c, r) : c \in {{"yearReport"}, {}}, r \in YearRows}

\* One symbol's price history: a row per date it covers, the close possibly
\* missing.
PriceSeries == UNION {[D -> ClosePrices \cup {NaN}] : D \in SUBSET Dates}

PriceResponses ==
  {RaiseResp(e) : e \in OtherErrors} \cup {NoneResp} \cup
  {Frame({"time", "close"}, s) : s \in PriceSeries} \cup
  {Frame({"time"}, [d \in Dates |-> NaN])}

\* Mutant: the symbol is compared as given, without upper().
UpperIdentity(s) == s

\* str.upper() on the strings of the model.
Upper(s) == IF s = "vnindex" THEN "VNINDEX" ELSE s

KeyError(col) == [type |-> "KeyError", msg |-> col]

\* A library call as it is logged: what was called, on which source, with
\* which argument, and for which position of the symbols list.
Call(c, src, arg, pos) == [call |-> c, source |-> src, arg |-> arg, pos |-> pos]

vietnam_indices == {"VNINDEX", "HNXINDEX", "UPCOMINDEX"}

\* The fetch a data tool issues.
FetchCall(t, a) ==
  CASE t = "get_stock_history" -> Call("quote.history", "VCI", a.symbol, 1)
    [] t = "get_forex_history" -> Call("fx.quote.history", "MSN", a.symbol, 1)
    [] t = "get_crypto_history" ->
         Call("crypto.quote.history", "MSN", a.symbol, 1)
    [] t = "get_index_history" ->
         IF Upper(a.symbol) \in vietnam_indices
         THEN Call("quote.history", "VCI", a.symbol, 1)
         ELSE Call("index.quote.history", "MSN", a.symbol, 1)
    [] t = "get_income_statement" ->
         Call("finance.income_statement", "VCI", Upper(a.symbol), 1)
    [] t = "get_balance_sheet" ->
         Call("finance.balance_sheet", "VCI", Upper(a.symbol), 1)
    [] t = "get_cash_flow" ->
         Call("finance.cash_flow", "VCI", Upper(a.symbol), 1)
    [] t = "get_financial_ratios" ->
         Call("finance.ratio", "VCI", Upper(a.symbol), 1)
    [] t = "get_dividend_history" ->
         Call("company.dividends", "TCBS", Upper(a.symbol), 1)
    [] t = "get_sjc_gold_price" -> Call("sjc_gold_price", "SJC", a.date, 1)
    [] t = "get_btmc_gold_price" -> Call("btmc_goldprice", "BTMC", "", 1)
    [] t = "get_vcb_exchange_rate" ->
         Call("vcb_exchange_rate", "VCB", a.date, 1)
    [] t = "get_company_info" ->
         Call(a.info_type, "VCI", Upper(a.symbol), 1)
    [] t = "get_fund_listing" -> Call("fund.listing", "fmarket", a.fund_type, 1)
    [] t = "search_funds" -> Call("fund.filter", "fmarket", a.symbol, 1)
    [] t = "get_fund_nav_report" ->
         Call("fund.details.nav_report", "fmarket", Upper(a.symbol), 1)
    [] t = "get_fund_top_holdings" ->
         Call("fund.details.top_holding", "fmarket", Upper(a.symbol), 1)
    [] t = "get_fund_industry_allocation" ->
         Call("fund.details.industry_holding", "fmarket", Upper(a.symbol), 1)
    [] t = "get_fund_asset_allocation" ->
         Call("fund.details.asset_holding", "fmarket", Upper(a.symbol), 1)

IsFetch(c) == c.source # "pypfopt" /\ c.source # "pandas"

\* ---------------------------------------------------------- data shaping
\* df.sort_values("yearReport").reset_index(drop=True) on the yearReport
\* values of the rows.
RECURSIVE Insert(_, _)
Insert(x, sorted) ==
  IF sorted = <<>> \/ x < Head(sorted) THEN <<x>> \o sorted
  ELSE <<Head(sorted)>> \o Insert(x, Tail(sorted))

\* Mutant: the rows stay in the order the source returned them.
SortValuesSkipped(rows) == rows

RECURSIVE SortValues(_)
SortValues(rows) ==
  IF rows = <<>> THEN <<>>
  ELSE Insert(rows[Len(rows)], SortValues(SubSeq(rows, 1, Len(rows) - 1)))

\* What a data tool does with a non-empty frame: the outcome is the returned
\* value and the exception raised on the way, if any.  `ser` is what
\* df.to_json does: NoExc, or the exception it raises.
Outcome(res, e) == [result |-> res, exc |-> e]

ToJson(t, a, rows, ser) ==
  IF ser # NoExc THEN Outcome(OuterExcept(t, a, ser), ser)
  ELSE Outcome(Json([records |-> rows]), NoExc)

ShapeFrame(t, a, df, ser) ==
  IF t \in FinanceTools
  THEN IF "yearReport" \in df.cols
       THEN ToJson(t, a, SortValues(df.rows), ser)
       ELSE Outcome(OuterExcept(t, a, KeyError("yearReport")),
                    KeyError("yearReport"))
  ELSE IF t = "get_financial_ratios" /\ "yearReport" \in df.cols
       THEN ToJson(t, a, SortValues(df.rows), ser)
       ELSE ToJson(t, a, df.rows, ser)

\* What a data tool returns for the answer `df` of its fetch.
AfterFetch(t, a, df, ser) ==
  IF df.kind = "raise" THEN Outcome(OuterExcept(t, a, df.exc), df.exc)
  ELSE IF IsEmpty(df) THEN Outcome(Text(NoDataText(t, a)), NoExc)
  ELSE ShapeFrame(t, a, df, ser)

SerializeOutcomes == {NoExc} \cup OtherErrors
ConstructOutcomes == {NoExc} \cup OtherErrors

\* ------------------------------------------------------ portfolio pipeline
\* Mutant: the per-symbol handler swallows the exception and the loop goes on.
InnerExceptContinue(t, a, sym, e) == NoResult

\* Mutant: the tool has no per-symbol handler, its outermost handler
\* answers a failed fetch.
InnerExceptOuter(t, a, sym, e) == OuterExcept(t, a, e)

\* The per-symbol try block's `except Exception`.
InnerExcept(t, a, sym, e) ==
  IF IsInstance(e, "Exception") THEN Text(SymbolErrorText(sym, e))
  ELSE OuterExcept(t, a, e)

\* The body of the per-symbol try block once the fetch of `sym` answered
\* `df`: a result of kind "none" means the loop goes on.
FetchedSymbol(t, a, sym, df) ==
  IF df.kind = "raise" THEN Outcome(InnerExcept(t, a, sym, df.exc), df.exc)
  ELSE IF IsEmpty(df) THEN Outcome(Text(SymbolNoDataText(a, sym)), NoExc)
  ELSE IF ~({"time", "close"} \subseteq df.cols)
       THEN Outcome(InnerExcept(t, a, sym, KeyError("close")),
                    KeyError("close"))
       ELSE Outcome(NoResult, NoExc)

\* df_clean: the close column indexed by time and renamed to the symbol.
DfClean(df, sym) == [column |-> sym, close |-> df.rows]

\* Mutant: every remaining fetch is handed to the executor at once.
FetchAll(symbols, i) == i..Len(symbols)

\* The positions whose fetch is handed to the executor when the loop
\* reaches position i: the loop awaits each fetch before it goes on.
FetchBatch(symbols, i) == {i}

\* pd.concat(all_data, axis=1): an outer join on the date index.
NoTable == [columns |-> <<>>, rows |-> <<>>]

\* Mutant: the cells a symbol has no row for are filled with a price.
ConcatFilled(frames) ==
  [columns |-> [i \in DOMAIN frames |-> frames[i].column],
   rows |-> [d \in UNION {DOMAIN frames[i].close : i \in DOMAIN frames} |->
               [i \in DOMAIN frames |->
                  IF d \in DOMAIN frames[i].close
                  THEN frames[i].close[d] ELSE CHOOSE c \in ClosePrices : TRUE]]]

Concat(frames) ==
  [columns |-> [i \in DOMAIN frames |-> frames[i].column],
   rows |-> [d \in UNION {DOMAIN frames[i].close : i \in DOMAIN frames} |->
               [i \in DOMAIN frames |->
                  IF d \in DOMAIN frames[i].close
                  THEN frames[i].close[d] ELSE NaN]]]

\* Mutant: dropna(how="all"), only the rows missing in every column go.
DropNaAll(df) ==
  [columns |-> df.columns,
   rows |-> [d \in {x \in DOMAIN df.rows :
                      \E i \in DOMAIN df.columns : df.rows[x][i] # NaN} |->
               df.rows[d]]]

\* combined_df.dropna(): drop every row with a missing cell.
DropNa(df) ==
  [columns |-> df.columns,
   rows |-> [d \in {x \in DOMAIN df.rows :
                      \A i \in DOMAIN df.columns : df.rows[x][i] # NaN} |->
               df.rows[d]]]

\* Mutant: the emptiness check on the cleaned table never fires.
TableEmptyNever(df) == FALSE

TableEmpty(df) == DOMAIN df.rows = {}

\* The estimators are the optimization library's: their values are named
\* by the estimator and what it was given.
Frequency == 252
NoEstimate == [estimator |-> "none"]

MeanHistoricalReturn(df, log_returns) ==
  [estimator |-> "mean_historical_return", prices |-> df,
   returns_data |-> FALSE, compounding |-> FALSE, frequency |-> Frequency,
   log_returns |-> log_returns]

RiskModel(name, df) == [estimator |-> name, prices |-> df]

\* Mutant: an unrecognized method falls back to Ledoit-Wolf shrinkage.
CovarianceForShrinkageFallback(covariance_method, df) ==
  CASE covariance_method = "sample_cov" -> RiskModel("sample_cov", df)
    [] covariance_method = "exp_cov" -> RiskModel("exp_cov", df)
    [] covariance_method = "semicovariance" -> RiskModel("semicovariance", df)
    [] OTHER -> RiskModel("ledoit_wolf_shrinkage", df)

\* The if/elif chain on covariance_method.
CovarianceFor(covariance_method, df) ==
  CASE covariance_method = "sample_cov" -> RiskModel("sample_cov", df)
    [] covariance_method = "ledoit_wolf" ->
         RiskModel("ledoit_wolf_shrinkage", df)
    [] covariance_method = "exp_cov" -> RiskModel("exp_cov", df)
    [] covariance_method = "semicovariance" -> RiskModel("semicovariance", df)
    [] OTHER -> RiskModel("sample_cov", df)

\* The three objectives of full_portfolio_optimization, in the order run.
Objectives == <<"max_sharpe", "min_volatility", "max_utility">>

\* Mutant: each objective estimates a covariance matrix of its own.
SolveOwnCovariance(objective, m, s, a) ==
  [objective |-> objective, mu |-> m,
   S |-> [estimator |-> objective, prices |-> m.prices],
   risk_free_rate |-> a.risk_free_rate,
   risk_aversion |-> IF objective = "max_utility" THEN a.risk_aversion ELSE ""]

\* What one solve is given: the frontier built from (mu, S), the objective
\* and its parameter, and the risk-free rate of portfolio_performance.
Solve(objective, m, s, a) ==
  [objective |-> objective, mu |-> m, S |-> s,
   risk_free_rate |-> a.risk_free_rate,
   risk_aversion |-> IF objective = "max_utility" THEN a.risk_aversion ELSE ""]

WeightDecimals == 4
MetricDecimals == 6
RoundedWeights(solved) == [clean_weights |-> solved, decimals |-> WeightDecimals]
Performance(solved, k) ==
  [performance |-> k, of |-> solved, decimals |-> MetricDecimals]

ObjectiveLabel(o) ==
  CASE o = "max_sharpe" -> <<"Max", "Sharpe">>
    [] o = "min_volatility" -> <<"Min", "volatility">>
    [] o = "max_utility" -> <<"Max", "utility">>

SuccessEntry(o, solved) ==
  [success |-> TRUE,
   weights |-> RoundedWeights(solved),
   expected_annual_return |-> Performance(solved, 0),
   annual_volatility |-> Performance(solved, 1),
   sharpe_ratio |-> Performance(solved, 2),
   optimization_type |-> o]

\* Mutant: a failure entry also carries weights.
FailureEntryWithWeights(o, e) ==
  [success |-> FALSE,
   error |-> ObjectiveLabel(o) \o <<"optimization", "failed", ":", e.msg>>,
   weights |-> <<>>]

FailureEntry(o, e) ==
  [success |-> FALSE,
   error |-> ObjectiveLabel(o) \o <<"optimization", "failed", ":", e.msg>>]

\* The except clause of an objective's own try block.
ObjectiveCatches(e) == IsInstance(e, "OptimizationError")

\* The keys of the optimizations dict in insertion order.
Keys(opts) == SelectSeq(Objectives, LAMBDA k : k \in DOMAIN opts)

\* Mutant: the summary lists every objective, failed ones included.
SuccessfulOptsUnfiltered(opts) == Keys(opts)

\* [k for k, v in optimizations.items() if v.get("success", False)]
SuccessfulOpts(opts) == SelectSeq(Keys(opts), LAMBDA k : opts[k].success)

Echo(a) ==
  [symbols |-> a.symbols, start_date |-> a.start_date,
   end_date |-> a.end_date]

\* Mutant: the estimator reported is the one `method` names.
ReturnsOutputByMethod(a, m) ==
  [request |-> Echo(a), method |-> a.method, log_returns |-> a.log_returns,
   expected_returns |-> [m EXCEPT !.estimator = a.method],
   frequency |-> Frequency, compounding |-> FALSE]

ReturnsOutput(a, m) ==
  [request |-> Echo(a), method |-> a.method, log_returns |-> a.log_returns,
   expected_returns |-> m, frequency |-> Frequency, compounding |-> FALSE]

OptimizeOutput(a, solved) ==
  [request |-> Echo(a), optimization_type |-> "max_sharpe",
   risk_free_rate |-> a.risk_free_rate,
   covariance_method |-> a.covariance_method,
   log_returns |-> a.log_returns,
   optimal_weights |-> RoundedWeights(solved),
   performance_metrics |->
     [expected_annual_return |-> Performance(solved, 0),
      annual_volatility |-> Performance(solved, 1),
      sharpe_ratio |-> Performance(solved, 2)]]

FullOutput(a, opts) ==
  [request |-> Echo(a), risk_free_rate |-> a.risk_free_rate,
   risk_aversion |-> a.risk_aversion,
   covariance_method |-> a.covariance_method,
   log_returns |-> a.log_returns,
   optimized_portfolios |-> opts,
   summary |-> [total_portfolios |-> Len(SuccessfulOpts(opts)),
                successful_optimizations |-> SuccessfulOpts(opts)]]

\* Weights are counted in millionths: 1.0 is Unit.
Unit == 1000000
\* clean_weights(): weights below the cutoff 1e-4 in absolute value become
\* zero, and the rest are rounded to 5 decimals.
Cutoff == 100
CleanStep == 10
\* round(v, 4)
RoundStep == 100

Abs(x) == IF x < 0 THEN 0 - x ELSE x

\* The multiples of `step` that rounding x to the nearest one can give: one,
\* or either neighbour when x lies half way, where the binary
\* representation of the float decides.
Rounded(x, step) ==
  LET low == (x \div step) * step
      rest == x - low
  IN IF 2 * rest < step THEN {low}
     ELSE IF 2 * rest > step THEN {low + step}
     ELSE {low, low + step}

\* What the solver may leave in ef.weights for n assets: weights between 0
\* and 1 that sum to 1, up to the solver's tolerance.
Noise == {-1, 0, 1}
WeightSamples == {-1, 0, 4, 49, 96, 99, 100, 105, 115, 150, 250, 333333, 500000}

RECURSIVE SumSeq(_)
SumSeq(seq) == IF seq = <<>> THEN 0 ELSE Head(seq) + SumSeq(Tail(seq))

SolverWeights(n) ==
  {w \in {Append(v, Unit + e - SumSeq(v)) :
            v \in [1..(n - 1) -> WeightSamples], e \in Noise} :
     \A i \in DOMAIN w : w[i] >= -1}

\* clean_weights[np.abs(clean_weights) < cutoff] = 0
CutSmall(w) == [i \in DOMAIN w |-> IF Abs(w[i]) < Cutoff THEN 0 ELSE w[i]]

\* The vectors rounding every entry of w to a multiple of `step` can give.
RoundedVectors(w, step) ==
  {v \in [DOMAIN w -> UNION {Rounded(w[i], step) : i \in DOMAIN w}] :
     \A i \in DOMAIN w : v[i] \in Rounded(w[i], step)}

\* OrderedDict(zip(tickers, weights)): a ticker listed twice keeps the
\* weight of its last position.
ZipDict(keys, values) ==
  [k \in Range(keys) |->
     values[CHOOSE i \in DOMAIN keys :
              keys[i] = k /\ \A j \in DOMAIN keys : keys[j] = k => j <= i]]

\* {k: round(v, 4) for k, v in clean_weights.items()}
RoundedDicts(d) ==
  {r \in [DOMAIN d -> UNION {Rounded(d[k], RoundStep) : k \in DOMAIN d}] :
     \A k \in DOMAIN d : r[k] \in Rounded(d[k], RoundStep)}

EstimateOutcomes == {NoExc} \cup OtherErrors
SolverOutcomes == {NoExc} \cup SolverErrors

\* ------------------------------------------------------------------ state
VARIABLES
  pc,            \* where the invocation stands
  tool,          \* the tool invoked
  args,          \* its arguments
  inflight,      \* positions of the fetches handed to the executor, not back
  responses,     \* what each returned fetch answered, in order
  calls,         \* the library calls made so far, in order
  excs,          \* the exceptions raised so far, in order
  all_data,      \* the portfolio tools' list of per-symbol frames
  combined_df,   \* the joined and cleaned price table
  mu,            \* the expected-return vector
  S,             \* the covariance matrix
  optimizations, \* full_portfolio_optimization's dict of per-objective entries
  library,       \* the optimization library's answers so far, per call
  clients,       \* what each construction of a data-source client did
  prev,          \* the previous call, when the caller repeats a call
  result,        \* the value returned to the caller
  process,       \* the server process: importing the module, serving, failed
  fund,          \* the module-level fund client handle
  tasks,         \* the invocations the server is handling, with their locals
  loop,          \* the invocation the event loop is running, 0 when free
  executor,      \* the invocations with a job in the executor's threads
  tickers,       \* the frontier's tickers, one per column of the table
  weights,       \* the frontier's weights as the solver left them
  clean_weights, \* what clean_weights() returned
  rounded_weights \* the weights put into the output

serving == <<process, fund, tasks, loop, executor>>
rounding == <<tickers, weights, clean_weights, rounded_weights>>
pipeline ==
  <<all_data, combined_df, mu, S, optimizations, library, prev, serving,
    rounding>>
vars ==
  <<pc, tool, args, inflight, responses, calls, excs, all_data, combined_df,
    mu, S, optimizations, library, clients, prev, result, serving, rounding>>

NoPrev == [tool |-> ""]

\* The fund handle: how many times Fund() was called, whether a handle is
\* bound to the module-level name, and whether a fund tool has used it.
NoFund == [built |-> 0, bound |-> FALSE, used |-> FALSE]
Imported == [built |-> 1, bound |-> TRUE, used |-> FALSE]

\* The invocations the server handles at a time, and the locals of one.
Tasks == 1..MaxTasks
IdleTask ==
  [pc |-> "idle", tool |-> "", args |-> NoArgs, clients |-> <<>>,
   responses |-> <<>>, all_data |-> <<>>, answers |-> <<>>,
   result |-> NoResult]

Init ==
  /\ pc = "idle"
  /\ tool = ""
  /\ args = NoArgs
  /\ inflight = {}
  /\ responses = <<>>
  /\ calls = <<>>
  /\ excs = <<>>
  /\ all_data = <<>>
  /\ combined_df = NoTable
  /\ mu = NoEstimate
  /\ S = NoEstimate
  /\ optimizations = <<>>
  /\ library = <<>>
  /\ clients = <<>>
  /\ prev = NoPrev
  /\ result = NoResult
  /\ process = "serving"
  /\ fund = Imported
  /\ tasks = [i \in Tasks |-> IdleTask]
  /\ loop = 0
  /\ executor = {}
  /\ tickers = <<>>
  /\ weights = <<>>
  /\ clean_weights = <<>>
  /\ rounded_weights = <<>>

Note(e) == IF e = NoExc THEN excs ELSE Append(excs, e)

\* The tool returns `out.result`; `out.exc` was raised on the way, if any.
Return(out) ==
  /\ pc' = "done"
  /\ result' = out.result
  /\ excs' = Note(out.exc)
  /\ inflight' = {}

\* A synchronous data tool (gold prices, exchange rates): the whole call,
\* fetch included, is one step.
InvokeSync(t, a) ==
  /\ pc = "idle"
  /\ t \in SyncTools
  /\ tool' = t
  /\ args' = a
  /\ \E df \in DataResponses, ser \in SerializeOutcomes :
       /\ calls' = <<FetchCall(t, a)>>
       /\ responses' = <<df>>
       /\ Return(AfterFetch(t, a, df, ser))
  /\ UNCHANGED <<pipeline, clients>>

\* An asynchronous data tool up to its first await: the client is built,
\* get_company_info dispatches on info_type, and the fetch is handed to the
\* executor.  `built` is what building the client does.
InvokeData(t, a) ==
  /\ pc = "idle"
  /\ t \in AsyncDataTools
  /\ tool' = t
  /\ args' = a
  /\ \E built \in IF t \in ClientTools THEN ConstructOutcomes ELSE {NoExc} :
       /\ clients' = IF t \in ClientTools THEN <<built>> ELSE <<>>
       /\ IF built # NoExc
          THEN /\ Return(Outcome(OuterExcept(t, a, built), built))
               /\ UNCHANGED calls
          ELSE IF t = "get_company_info" /\ a.info_type \notin Range(InfoTypes)
               THEN /\ Return(Outcome(Text(InvalidInfoTypeText(a)), NoExc))
                    /\ UNCHANGED calls
               ELSE /\ pc' = "fetch"
                    /\ inflight' = {1}
                    /\ calls' = <<FetchCall(t, a)>>
                    /\ UNCHANGED <<result, excs>>
  /\ UNCHANGED <<responses, pipeline>>

\* The fetch of a data tool comes back and the tool runs to its return, or,
\* for get_financial_ratios with rows, to its second await.
DataFetchReturn ==
  /\ pc = "fetch"
  /\ tool \in AsyncDataTools
  /\ \E df \in DataResponses, ser \in SerializeOutcomes :
       /\ responses' = Append(responses, df)
       /\ IF tool = "get_financial_ratios" /\ df.kind = "frame" /\ ~IsEmpty(df)
          THEN /\ pc' = "flatten"
               /\ inflight' = {}
               /\ UNCHANGED <<result, excs>>
          ELSE Return(AfterFetch(tool, args, df, ser))
  /\ UNCHANGED <<tool, args, calls, pipeline, clients>>

\* flatten_hierarchical_index comes back from the executor.
FlattenReturn ==
  /\ pc = "flatten"
  /\ \E flat \in ConstructOutcomes, ser \in SerializeOutcomes :
       IF flat # NoExc
       THEN Return(Outcome(OuterExcept(tool, args, flat), flat))
       ELSE Return(ShapeFrame(tool, args, responses[Len(responses)], ser))
  /\ UNCHANGED <<tool, args, calls, responses, pipeline, clients>>

\* The top of the per-symbol loop at position i: the Quote client is built
\* (`built` is what that does) and the fetch handed to the executor.
LoopAt(t, a, i, built) ==
  /\ clients' = Append(clients, built)
  /\ IF built # NoExc
     THEN /\ Return(Outcome(InnerExcept(t, a, a.symbols[i], built), built))
          /\ UNCHANGED calls
     ELSE /\ pc' = "fetch"
          /\ inflight' = FetchBatch(a.symbols, i)
          /\ calls' = calls \o
               [k \in 1..Cardinality(FetchBatch(a.symbols, i)) |->
                  Call("quote.history", "VCI", a.symbols[i + k - 1],
                       i + k - 1)]
          /\ UNCHANGED <<result, excs>>

\* A portfolio tool up to its first await, or to its return when the
\* symbols list is empty.
InvokePortfolio(t, a) ==
  /\ pc = "idle"
  /\ t \in PortfolioTools
  /\ tool' = t
  /\ args' = a
  /\ IF a.symbols = <<>>
     THEN /\ Return(Outcome(Text(NoSymbolsText), NoExc))
          /\ UNCHANGED <<calls, clients>>
     ELSE \E built \in ConstructOutcomes : LoopAt(t, a, 1, built)
  /\ UNCHANGED <<responses, pipeline>>

\* The awaited fetch of a symbol comes back: the rest of the try block
\* runs, then the loop goes on to the next symbol or ends.
SymbolFetchReturn ==
  /\ pc = "fetch"
  /\ tool \in PortfolioTools
  /\ \E i \in inflight, df \in PriceResponses :
       LET sym == args.symbols[i]
           out == FetchedSymbol(tool, args, sym, df)
       IN /\ responses' = Append(responses, df)
          /\ IF out.result # NoResult
             THEN /\ Return(out)
                  /\ UNCHANGED <<calls, all_data, clients>>
             ELSE /\ all_data' = Append(all_data, DfClean(df, sym))
                  /\ IF inflight # {i}
                     THEN /\ inflight' = inflight \ {i}
                          /\ UNCHANGED <<pc, calls, result, excs, clients>>
                     ELSE IF Len(all_data') < Len(args.symbols)
                          THEN \E built \in ConstructOutcomes :
                                 LoopAt(tool, args, Len(all_data') + 1, built)
                          ELSE /\ pc' = "clean"
                               /\ inflight' = {}
                               /\ UNCHANGED <<calls, result, excs, clients>>
  /\ UNCHANGED <<tool, args, combined_df, mu, S, optimizations, library, prev,
                 serving, rounding>>

\* The frames are joined and the rows with a missing value dropped.  The
\* frames appended to all_data have a unique date index and one column each,
\* on which neither pd.concat nor dropna raises.
Clean ==
  /\ pc = "clean"
  /\ calls' = calls \o <<Call("concat", "pandas", "", 0),
                          Call("dropna", "pandas", "", 0)>>
  /\ combined_df' = DropNa(Concat(all_data))
  /\ IF TableEmpty(combined_df')
     THEN Return(Outcome(Text(NoCompleteDataText), NoExc))
     ELSE /\ pc' = "estimate"
          /\ UNCHANGED <<result, excs, inflight>>
  /\ UNCHANGED <<tool, args, responses, all_data, mu, S, optimizations,
                 library, clients, prev,
                 serving, rounding>>

\* The optimization library computes: a call answers as the same call
\* answered before, if it was made before.
LibraryAnswers(request, outcomes) ==
  IF request \in DOMAIN library THEN {library[request]} ELSE outcomes

MuCall == Call("mean_historical_return", "pypfopt", "", 0)

\* Expected returns, and for the optimizing tools the covariance matrix;
\* calculate_returns returns here.
Estimate ==
  /\ pc = "estimate"
  /\ LET m == MeanHistoricalReturn(combined_df, args.log_returns)
         s == CovarianceFor(args.covariance_method, combined_df)
     IN \E am \in LibraryAnswers(m, EstimateOutcomes) :
          IF am # NoExc
          THEN /\ Return(Outcome(OuterExcept(tool, args, am), am))
               /\ calls' = Append(calls, MuCall)
               /\ library' = (m :> am) @@ library
               /\ UNCHANGED <<mu, S>>
          ELSE /\ mu' = m
               /\ IF tool = "calculate_returns"
                  THEN /\ Return(Outcome(Json(ReturnsOutput(args, m)), NoExc))
                       /\ calls' = Append(calls, MuCall)
                       /\ library' = (m :> am) @@ library
                       /\ UNCHANGED S
                  ELSE \E as \in LibraryAnswers(s, EstimateOutcomes) :
                         /\ calls' = calls \o
                              <<MuCall, Call(s.estimator, "pypfopt", "", 0)>>
                         /\ library' = (s :> as) @@ ((m :> am) @@ library)
                         /\ IF as # NoExc
                            THEN /\ Return(Outcome(
                                      OuterExcept(tool, args, as), as))
                                 /\ UNCHANGED S
                            ELSE /\ S' = s
                                 /\ pc' = "optimize"
                                 /\ UNCHANGED <<result, excs, inflight>>
  /\ UNCHANGED <<tool, args, responses, all_data, combined_df, optimizations,
                 clients, prev,
                 serving, rounding>>

\* optimize_portfolio's single max_sharpe solve and its return.
Optimize ==
  /\ pc = "optimize"
  /\ tool = "optimize_portfolio"
  /\ LET solved == Solve("max_sharpe", mu, S, args)
     IN \E answer \in LibraryAnswers(solved, SolverOutcomes) :
          /\ library' = (solved :> answer) @@ library
          /\ calls' = Append(calls, Call("max_sharpe", "pypfopt", "", 0))
          /\ IF answer # NoExc
             THEN Return(Outcome(OuterExcept(tool, args, answer), answer))
             ELSE Return(Outcome(Json(OptimizeOutput(args, solved)), NoExc))
  /\ UNCHANGED <<tool, args, responses, all_data, combined_df, mu, S,
                 optimizations, clients, prev,
                 serving, rounding>>

\* One objective of full_portfolio_optimization, in its own try block.
OptimizeObjective ==
  /\ pc = "optimize"
  /\ tool = "full_portfolio_optimization"
  /\ LET o == Objectives[Len(Keys(optimizations)) + 1]
         solved == Solve(o, mu, S, args)
     IN \E answer \in LibraryAnswers(solved, SolverOutcomes) :
          /\ library' = (solved :> answer) @@ library
          /\ calls' = Append(calls, Call(o, "pypfopt", "", 0))
          /\ IF answer = NoExc
             THEN /\ optimizations' =
                       (o :> SuccessEntry(o, solved)) @@ optimizations
                  /\ excs' = excs
             ELSE IF ObjectiveCatches(answer)
                  THEN /\ optimizations' =
                            (o :> FailureEntry(o, answer)) @@ optimizations
                       /\ excs' = Append(excs, answer)
                  ELSE /\ Return(Outcome(OuterExcept(tool, args, answer),
                                         answer))
                       /\ UNCHANGED optimizations
          /\ (answer = NoExc \/ ObjectiveCatches(answer)) =>
               /\ pc' = IF o = Objectives[Len(Objectives)]
                        THEN "summarize" ELSE "optimize"
               /\ UNCHANGED <<result, inflight>>
  /\ UNCHANGED <<tool, args, responses, all_data, combined_df, mu, S, clients,
                 prev, serving, rounding>>

\* The summary of the successful objectives and the JSON object.
Summarize ==
  /\ pc = "summarize"
  /\ Return(Outcome(Json(FullOutput(args, optimizations)), NoExc))
  /\ UNCHANGED <<tool, args, responses, calls, pipeline, clients>>

Next ==
  \/ \E t \in SyncTools : \E a \in ArgsOf(t) : InvokeSync(t, a)
  \/ \E t \in AsyncDataTools : \E a \in ArgsOf(t) : InvokeData(t, a)
  \/ DataFetchReturn
  \/ FlattenReturn
  \/ \E t \in PortfolioTools : \E a \in ArgsOf(t) : InvokePortfolio(t, a)
  \/ SymbolFetchReturn
  \/ Clean
  \/ Estimate
  \/ Optimize
  \/ OptimizeObjective
  \/ Summarize

Spec == Init /\ [][Next]_vars

\* ------------------------------------------------------- a repeated call
\* The caller repeats a finished optimizing call that named a covariance
\* method, this time with "sample_cov", and the data source answers the
\* second call as it answered the first.
RecognizedMethods ==
  {"sample_cov", "ledoit_wolf", "exp_cov", "semicovariance"}

IsPrefix(p, q) == Len(p) <= Len(q) /\ p = SubSeq(q, 1, Len(p))

FirstCall(t, a) ==
  /\ prev = NoPrev
  /\ a.covariance_method \notin RecognizedMethods
  /\ InvokePortfolio(t, a)

RepeatCall ==
  /\ pc = "done"
  /\ prev = NoPrev
  /\ prev' = [tool |-> tool, args |-> args, responses |-> responses,
              clients |-> clients, result |-> result]
  /\ pc' = "idle"
  /\ tool' = ""
  /\ args' = NoArgs
  /\ inflight' = {}
  /\ responses' = <<>>
  /\ calls' = <<>>
  /\ excs' = <<>>
  /\ all_data' = <<>>
  /\ combined_df' = NoTable
  /\ mu' = NoEstimate
  /\ S' = NoEstimate
  /\ optimizations' = <<>>
  /\ clients' = <<>>
  /\ result' = NoResult
  /\ UNCHANGED <<library, serving, rounding>>

SecondCall ==
  /\ prev # NoPrev
  /\ InvokePortfolio(prev.tool,
                     [prev.args EXCEPT !.covariance_method = "sample_cov"])

SameAnswers ==
  prev # NoPrev =>
    /\ IsPrefix(responses', prev.responses)
    /\ IsPrefix(clients', prev.clients)

NextRepeat ==
  \/ \E t \in OptimizingTools : \E a \in ArgsOf(t) : FirstCall(t, a)
  \/ RepeatCall
  \/ SecondCall /\ SameAnswers
  \/ SymbolFetchReturn /\ SameAnswers
  \/ Clean
  \/ Estimate
  \/ Optimize
  \/ OptimizeObjective
  \/ Summarize

SpecRepeat == Init /\ [][NextRepeat]_vars

\* The caller repeats a finished calculate_returns call with a value of
\* `method`, and the data source answers as it answered the first call.
FirstReturnsCall(a) ==
  /\ prev = NoPrev
  /\ InvokePortfolio("calculate_returns", a)

SecondReturnsCall(method) ==
  /\ prev # NoPrev
  /\ InvokePortfolio("calculate_returns", [prev.args EXCEPT !.method = method])

NextMethods ==
  \/ \E a \in ArgsOf("calculate_returns") : FirstReturnsCall(a)
  \/ RepeatCall
  \/ \E method \in ReturnMethods : SecondReturnsCall(method) /\ SameAnswers
  \/ SymbolFetchReturn /\ SameAnswers
  \/ Clean
  \/ Estimate

SpecMethods == Init /\ [][NextMethods]_vars

\* The fetch-and-clean stage of one portfolio tool after that of another:
\* a first tool runs its stage to the return of a string or to the
\* estimator, then a second portfolio tool is called with the same symbols
\* and dates, and the data source answers it as it answered the first.
StageEnded == pc = "done" \/ pc = "estimate"

FirstStageCall(t, a) ==
  /\ prev = NoPrev
  /\ InvokePortfolio(t, a)

StageHandover ==
  /\ StageEnded
  /\ prev = NoPrev
  /\ prev' = [tool |-> tool, args |-> args, responses |-> responses,
              clients |-> clients, result |-> result, pc |-> pc,
              calls |-> calls, combined_df |-> combined_df]
  /\ pc' = "idle"
  /\ tool' = ""
  /\ args' = NoArgs
  /\ inflight' = {}
  /\ responses' = <<>>
  /\ calls' = <<>>
  /\ excs' = <<>>
  /\ all_data' = <<>>
  /\ combined_df' = NoTable
  /\ clients' = <<>>
  /\ result' = NoResult
  /\ UNCHANGED <<mu, S, optimizations, library, serving, rounding>>

SameStageInputs(a, b) ==
  /\ a.symbols = b.symbols
  /\ a.start_date = b.start_date
  /\ a.end_date = b.end_date

SecondStageCall(t, a) ==
  /\ prev # NoPrev
  /\ t # prev.tool
  /\ SameStageInputs(a, prev.args)
  /\ InvokePortfolio(t, a)

\* The stage reads symbols, start_date and end_date only: the other
\* parameters are left at their defaults.
StageArgs(t) ==
  {a \in ArgsOf(t) : /\ a.method \in {"", "mean_historical"}
                     /\ a.covariance_method \in {"", "sample_cov"}}

NextStage ==
  \/ \E t \in PortfolioTools : \E a \in StageArgs(t) : FirstStageCall(t, a)
  \/ StageHandover
  \/ \E t \in PortfolioTools : \E a \in StageArgs(t) :
       SecondStageCall(t, a) /\ SameAnswers
  \/ SymbolFetchReturn /\ SameAnswers
  \/ Clean

SpecStage == Init /\ [][NextStage]_vars

\* ------------------------------------------------- the weights of a solve
\* A solve of optimize_portfolio, or one that succeeded in
\* full_portfolio_optimization, from the solver's weights to the weights of
\* the output.  The tickers are the columns of the table, one per symbol
\* of the request.
Solved ==
  /\ pc = "idle"
  /\ \E l \in SymbolLists \ {<<>>} :
       /\ tickers' = l
       /\ \E w \in SolverWeights(Len(l)) : weights' = w
  /\ pc' = "solved"
  /\ UNCHANGED <<tool, args, inflight, responses, calls, excs, all_data,
                 combined_df, mu, S, optimizations, library, clients, prev,
                 result, serving, clean_weights, rounded_weights>>

CleanWeights ==
  /\ pc = "solved"
  /\ \E v \in RoundedVectors(CutSmall(weights), CleanStep) :
       clean_weights' = ZipDict(tickers, v)
  /\ pc' = "cleaned"
  /\ UNCHANGED <<tool, args, inflight, responses, calls, excs, all_data,
                 combined_df, mu, S, optimizations, library, clients, prev,
                 result, serving, tickers, weights, rounded_weights>>

RoundWeights ==
  /\ pc = "cleaned"
  /\ rounded_weights' \in RoundedDicts(clean_weights)
  /\ pc' = "rounded"
  /\ UNCHANGED <<tool, args, inflight, responses, calls, excs, all_data,
                 combined_df, mu, S, optimizations, library, clients, prev,
                 result, serving, tickers, weights, clean_weights>>

NextWeights == Solved \/ CleanWeights \/ RoundWeights

SpecWeights == Init /\ [][NextWeights]_vars

\* ------------------------------------------- the server and its event loop
\* The process imports the module, then serves invocations on one event
\* loop.  A coroutine holds the loop from where it starts or resumes to its
\* next await or its return; what is handed to run_in_executor runs in the
\* executor's threads and leaves the loop free.
single ==
  <<pc, tool, args, inflight, responses, calls, excs, all_data, combined_df,
    mu, S, optimizations, library, clients, prev, result>>

InitServe ==
  /\ pc = "idle"
  /\ tool = ""
  /\ args = NoArgs
  /\ inflight = {}
  /\ responses = <<>>
  /\ calls = <<>>
  /\ excs = <<>>
  /\ all_data = <<>>
  /\ combined_df = NoTable
  /\ mu = NoEstimate
  /\ S = NoEstimate
  /\ optimizations = <<>>
  /\ library = <<>>
  /\ clients = <<>>
  /\ prev = NoPrev
  /\ result = NoResult
  /\ process = "importing"
  /\ fund = NoFund
  /\ tasks = [i \in Tasks |-> IdleTask]
  /\ loop = 0
  /\ executor = {}
  /\ tickers = <<>>
  /\ weights = <<>>
  /\ clean_weights = <<>>
  /\ rounded_weights = <<>>

\* The requests and the answers followed here: one tool of each kind.
ServeTools ==
  {"get_btmc_gold_price", "get_fund_listing", "get_stock_history",
   "optimize_portfolio"}

ServeArgs(t) ==
  CASE t = "optimize_portfolio" ->
         {a \in ArgsOf(t) : /\ a.covariance_method = "sample_cov"
                            /\ a.symbols \in {<<>>, <<"VCI", "VNM">>}}
    [] t = "get_stock_history" -> {a \in ArgsOf(t) : a.symbol = "VCI"}
    [] t = "get_fund_listing" -> {a \in ArgsOf(t) : a.fund_type = ""}
    [] OTHER -> ArgsOf(t)

ServeAnswers(t) ==
  IF t \in PortfolioTools
  THEN {df \in PriceResponses :
          \/ df.kind = "raise"
          \/ /\ df.kind = "frame"
             /\ df.cols = {"time", "close"}
             /\ Cardinality(DOMAIN df.rows) = 1
             /\ \A d \in DOMAIN df.rows : df.rows[d] # NaN}
  ELSE {df \in DataResponses :
          df.kind = "raise" \/ (df.kind = "frame" /\ df.cols = {} /\ Len(df.rows) < 2)}

\* Mutant: all_data is one module-level list, the first invocation's.
AllDataShared(ts, i) == ts[1].all_data

\* all_data is a local of the invocation.
AllData(ts, i) == ts[i].all_data

\* The module is imported: the server object and the fund handle are made.
\* When Fund() raises, the import fails and nothing is served.
Import ==
  /\ process = "importing"
  /\ \E built \in ConstructOutcomes :
       IF built = NoExc
       THEN /\ fund' = [built |-> fund.built + 1, bound |-> TRUE, used |-> FALSE]
            /\ process' = "serving"
       ELSE /\ fund' = [fund EXCEPT !.built = fund.built + 1]
            /\ process' = "failed"
  /\ UNCHANGED <<single, tasks, loop, executor, rounding>>

\* A coroutine builds the client for `sym` and hands the fetch to the
\* executor, and so reaches an await, unless building the client raises.
Awaiting(task, out, built) ==
  IF built # NoExc
  THEN [task EXCEPT !.pc = "done", !.result = out,
                    !.clients = Append(task.clients, built)]
  ELSE [task EXCEPT !.pc = "await", !.clients = Append(task.clients, built)]

\* The server starts an invocation on the event loop.  A synchronous tool
\* is a plain function: the framework calls it on the loop or in a worker
\* thread, and it fetches where it is called.  A coroutine runs to its
\* first await or to its return.
Start(i, t, a) ==
  /\ process = "serving"
  /\ loop = 0
  /\ tasks[i].pc = "idle"
  /\ LET task == [IdleTask EXCEPT !.tool = t, !.args = a]
     IN \/ /\ t \in SyncTools
           /\ tasks' = [tasks EXCEPT ![i] = [task EXCEPT !.pc = "fetching"]]
           /\ \E offload \in BOOLEAN : loop' = IF offload THEN 0 ELSE i
           /\ UNCHANGED <<executor, fund>>
        \/ /\ t \in FundTools
           /\ fund.bound
           /\ fund' = [fund EXCEPT !.used = TRUE]
           /\ tasks' = [tasks EXCEPT ![i] = [task EXCEPT !.pc = "await"]]
           /\ executor' = executor \cup {i}
           /\ UNCHANGED loop
        \/ /\ t \in ClientTools
           /\ \E built \in ConstructOutcomes :
                /\ tasks' = [tasks EXCEPT ![i] =
                     Awaiting(task, OuterExcept(t, a, built), built)]
                /\ executor' = IF built = NoExc THEN executor \cup {i}
                               ELSE executor
           /\ UNCHANGED <<loop, fund>>
        \/ /\ t \in PortfolioTools
           /\ IF a.symbols = <<>>
              THEN /\ tasks' = [tasks EXCEPT ![i] =
                        [task EXCEPT !.pc = "done",
                                     !.result = Text(NoSymbolsText)]]
                   /\ UNCHANGED executor
              ELSE \E built \in ConstructOutcomes :
                     /\ tasks' = [tasks EXCEPT ![i] =
                          Awaiting(task,
                                   InnerExcept(t, a, a.symbols[1], built),
                                   built)]
                     /\ executor' = IF built = NoExc THEN executor \cup {i}
                                    ELSE executor
           /\ UNCHANGED <<loop, fund>>
  /\ UNCHANGED <<single, process, rounding>>

\* A synchronous tool's fetch answers and the tool returns.
SyncFinish(i) ==
  /\ tasks[i].pc = "fetching"
  /\ \E df \in ServeAnswers(tasks[i].tool), ser \in SerializeOutcomes :
       tasks' = [tasks EXCEPT ![i] =
         [tasks[i] EXCEPT
            !.pc = "done",
            !.responses = <<df>>,
            !.answers = <<ser>>,
            !.result = AfterFetch(tasks[i].tool, tasks[i].args, df,
                                  ser).result]]
  /\ loop' = IF loop = i THEN 0 ELSE loop
  /\ UNCHANGED <<single, process, fund, executor, rounding>>

\* A fetch in the executor answers; its coroutine can be resumed.
JobDone(i) ==
  /\ i \in executor
  /\ executor' = executor \ {i}
  /\ \E df \in ServeAnswers(tasks[i].tool) :
       tasks' = [tasks EXCEPT ![i] =
         [tasks[i] EXCEPT !.pc = "ready",
                          !.responses = Append(tasks[i].responses, df)]]
  /\ UNCHANGED <<single, process, fund, loop, rounding>>

\* The loop resumes a data tool's coroutine after its fetch: it runs to
\* its return.
ResumeData(i) ==
  /\ tasks[i].pc = "ready"
  /\ tasks[i].tool \in AsyncDataTools
  /\ loop = 0
  /\ \E ser \in SerializeOutcomes :
       tasks' = [tasks EXCEPT ![i] =
         [tasks[i] EXCEPT
            !.pc = "done",
            !.answers = <<ser>>,
            !.result = AfterFetch(tasks[i].tool, tasks[i].args,
                                  tasks[i].responses[Len(tasks[i].responses)],
                                  ser).result]]
  /\ UNCHANGED <<single, process, fund, loop, executor, rounding>>

\* The loop resumes a portfolio tool's coroutine after a symbol's fetch: it
\* runs to the next symbol's await, to a return, or into the estimation,
\* which it computes holding the loop.
ResumePortfolio(i) ==
  /\ tasks[i].pc = "ready"
  /\ tasks[i].tool \in PortfolioTools
  /\ loop = 0
  /\ LET task == tasks[i]
         k == Len(task.responses)
         sym == task.args.symbols[k]
         df == task.responses[k]
         out == FetchedSymbol(task.tool, task.args, sym, df)
         frames == Append(AllData(tasks, i), DfClean(df, sym))
         kept == [task EXCEPT !.all_data = frames]
     IN IF out.result # NoResult
        THEN /\ tasks' = [tasks EXCEPT ![i] =
                  [task EXCEPT !.pc = "done", !.result = out.result]]
             /\ UNCHANGED <<loop, executor>>
        ELSE IF k < Len(task.args.symbols)
        THEN /\ \E built \in ConstructOutcomes :
                  /\ tasks' = [tasks EXCEPT ![i] =
                       Awaiting(kept,
                                InnerExcept(task.tool, task.args,
                                            task.args.symbols[k + 1], built),
                                built)]
                  /\ executor' = IF built = NoExc THEN executor \cup {i}
                                 ELSE executor
             /\ UNCHANGED loop
        ELSE IF TableEmpty(DropNa(Concat(frames)))
        THEN /\ tasks' = [tasks EXCEPT ![i] =
                  [kept EXCEPT !.pc = "done",
                               !.result = Text(NoCompleteDataText)]]
             /\ UNCHANGED <<loop, executor>>
        ELSE /\ tasks' = [tasks EXCEPT ![i] = [kept EXCEPT !.pc = "compute"]]
             /\ loop' = i
             /\ UNCHANGED executor
  /\ UNCHANGED <<single, process, fund, rounding>>

\* What optimize_portfolio returns for the estimators' and the solver's
\* answers on a cleaned table.
OptimizeResult(t, a, table, am, as, answer) ==
  LET m == MeanHistoricalReturn(table, a.log_returns)
      s == CovarianceFor(a.covariance_method, table)
  IN IF am # NoExc THEN OuterExcept(t, a, am)
     ELSE IF as # NoExc THEN OuterExcept(t, a, as)
     ELSE IF answer # NoExc THEN OuterExcept(t, a, answer)
     ELSE Json(OptimizeOutput(a, Solve("max_sharpe", m, s, a)))

\* The estimation and the solve end and the tool returns, freeing the loop.
ComputeFinish(i) ==
  /\ tasks[i].pc = "compute"
  /\ \E am \in EstimateOutcomes, as \in EstimateOutcomes,
        answer \in SolverOutcomes :
       /\ am # NoExc => as = NoExc
       /\ (am # NoExc \/ as # NoExc) => answer = NoExc
       /\ tasks' = [tasks EXCEPT ![i] =
         [tasks[i] EXCEPT
            !.pc = "done",
            !.answers = <<am, as, answer>>,
            !.result = OptimizeResult(tasks[i].tool, tasks[i].args,
                                      DropNa(Concat(AllData(tasks, i))),
                                      am, as, answer)]]
  /\ loop' = 0
  /\ UNCHANGED <<single, process, fund, executor, rounding>>

\* The caller has its result; the server can take another invocation.
Collect(i) ==
  /\ tasks[i].pc = "done"
  /\ tasks' = [tasks EXCEPT ![i] = IdleTask]
  /\ UNCHANGED <<single, process, fund, loop, executor, rounding>>

NextServe ==
  \/ Import
  \/ \E i \in Tasks, t \in ServeTools : \E a \in ServeArgs(t) : Start(i, t, a)
  \/ \E i \in Tasks : SyncFinish(i)
  \/ \E i \in Tasks : JobDone(i)
  \/ \E i \in Tasks : ResumeData(i)
  \/ \E i \in Tasks : ResumePortfolio(i)
  \/ \E i \in Tasks : ComputeFinish(i)
  \/ \E i \in Tasks : Collect(i)

SpecServe == InitServe /\ [][NextServe]_vars

\* ================================================================== claims
Done == pc = "done"
Last(seq) == seq[Len(seq)]
FetchCalls == SelectSeq(calls, IsFetch)
LibraryCalled(src) == \E i \in DOMAIN calls : calls[i].source = src
ObjectiveSet == Range(Objectives)

\* The estimates were computed, so the objectives were reached.
ReachedObjectives ==
  tool = "full_portfolio_optimization" /\ S # NoEstimate

\* C1 (as claimed): in full_portfolio_optimization, once the table is cleaned
\* and the estimates computed, whatever an objective's solve raises, the
\* response is the JSON object, with an entry for every objective and a
\* success entry for every objective whose solve did not fail.
C1_ObjectiveFailureIsolated ==
  (Done /\ ReachedObjectives) =>
    /\ result.kind = "json"
    /\ DOMAIN result.json.optimized_portfolios = ObjectiveSet
    /\ \A o \in ObjectiveSet :
         LET solved == Solve(o, mu, S, args)
         IN (solved \in DOMAIN library /\ library[solved] = NoExc) =>
              result.json.optimized_portfolios[o].success

\* C2: in every JSON response of full_portfolio_optimization,
\* summary.successful_optimizations lists exactly the objectives whose entry
\* has success = true, each once, and summary.total_portfolios is their number.
C2_SummaryMatchesEntries ==
  (tool = "full_portfolio_optimization" /\ result.kind = "json") =>
    LET entries == result.json.optimized_portfolios
        listed == result.json.summary.successful_optimizations
        succeeded == {o \in DOMAIN entries : entries[o].success}
    IN /\ Range(listed) = succeeded
       /\ Len(listed) = Cardinality(succeeded)
       /\ result.json.summary.total_portfolios = Cardinality(succeeded)

\* C2 witness: a JSON response with a failed and a successful objective.
C2_Witness ==
  /\ tool = "full_portfolio_optimization"
  /\ result.kind = "json"
  /\ \E o1, o2 \in DOMAIN result.json.optimized_portfolios :
       /\ result.json.optimized_portfolios[o1].success
       /\ ~result.json.optimized_portfolios[o2].success

\* "Error <doing something>: <message>"
IsErrorForm(words, msg) ==
  /\ Len(words) >= 4
  /\ words[1] = "Error"
  /\ words[Len(words) - 1] = ":"
  /\ words[Len(words)] = msg

FailuresRecorded ==
  /\ \A i \in DOMAIN excs : excs[i].type = "OptimizationError"
  /\ Len(excs) =
       Cardinality({o \in DOMAIN optimizations : ~optimizations[o].success})
  /\ \A o \in DOMAIN result.json.optimized_portfolios :
       LET entry == result.json.optimized_portfolios[o]
       IN ~entry.success =>
            /\ SubSeq(entry.error, 1, Len(entry.error) - 1) =
                 ObjectiveLabel(o) \o <<"optimization", "failed", ":">>
            /\ \E i \in DOMAIN excs : Last(entry.error) = excs[i].msg

C4_InvalidInfoTypeMessage ==
  (Done /\ tool = "get_company_info" /\ args.info_type \notin Range(InfoTypes))
    => /\ result = Text(InvalidInfoTypeText(args))
       /\ FetchCalls = <<>>

\* The repeated call has returned, and the data source answered it exactly
\* as it answered the first call.
SameCallRepeated ==
  /\ Done
  /\ prev # NoPrev
  /\ responses = prev.responses
  /\ clients = prev.clients

\* C5 (as claimed): with every other parameter and every data-source answer
\* equal, the call with "sample_cov" returns exactly what the call with the
\* unrecognized covariance_method returned.
C5_IdenticalOutput == SameCallRepeated => result = prev.result

\* C5 (amended): the two calls return the same string, or two JSON objects
\* that differ in nothing but the echoed covariance_method.
C5_IdenticalButEcho ==
  SameCallRepeated =>
    /\ result.kind = prev.result.kind
    /\ IF result.kind = "json"
       THEN /\ result.json.covariance_method = "sample_cov"
            /\ prev.result.json.covariance_method = prev.args.covariance_method
            /\ [result.json EXCEPT !.covariance_method = ""] =
                 [prev.result.json EXCEPT !.covariance_method = ""]
       ELSE result = prev.result

\* C5 witness: both calls of full_portfolio_optimization returned JSON with
\* a solved objective.
C5_Witness ==
  /\ SameCallRepeated
  /\ tool = "full_portfolio_optimization"
  /\ result.kind = "json"
  /\ \E o \in ObjectiveSet : result.json.optimized_portfolios[o].success

\* A fetch answered with a frame that has rows and the time and close columns.
HasRows(df) ==
  df.kind = "frame" /\ {"time", "close"} \subseteq df.cols /\ DOMAIN df.rows # {}

AllSeriesFetched ==
  /\ tool \in PortfolioTools
  /\ args.symbols # <<>>
  /\ Len(responses) = Len(args.symbols)
  /\ \A i \in DOMAIN responses : HasRows(responses[i])

\* Dates every fetched series has a row for.
CommonDates ==
  {d \in Dates : \A i \in DOMAIN responses : d \in DOMAIN responses[i].rows}

\* C6: in the three portfolio tools, when every symbol returned a non-empty
\* series and no date is in all of them, the cleaned table is empty, the
\* tool returns the no-complete-data string, and neither an estimator nor
\* the optimizer is called.
C6_DisjointDatesNoCompleteData ==
  (AllSeriesFetched /\ CommonDates = {}) =>
    /\ pc \in {"clean", "done"}
    /\ ~LibraryCalled("pypfopt")
    /\ Done => /\ TableEmpty(combined_df)
               /\ result = Text(NoCompleteDataText)

\* C6 witness: two symbols with disjoint date ranges, and the tool returned.
C6_Witness ==
  /\ Done
  /\ AllSeriesFetched
  /\ Len(responses) = 2
  /\ DOMAIN responses[1].rows # {}
  /\ DOMAIN responses[1].rows \cap DOMAIN responses[2].rows = {}

\* Dates on which every fetched series has a close price.
CompleteDates ==
  {d \in Dates : \A i \in DOMAIN responses :
     d \in DOMAIN responses[i].rows /\ responses[i].rows[d] # NaN}

EstimatorCalled ==
  \E i \in DOMAIN calls : calls[i].call = "mean_historical_return"

\* C7: the table passed to the estimator holds exactly the dates that have
\* a close price in every fetched series, with those prices, has no missing
\* cell, and has at most as many rows as the shortest series.
C7_CleanTableIsIntersection ==
  (tool \in PortfolioTools /\ EstimatorCalled) =>
    /\ DOMAIN combined_df.rows = CompleteDates
    /\ \A d \in DOMAIN combined_df.rows : \A i \in DOMAIN responses :
         /\ combined_df.rows[d][i] # NaN
         /\ combined_df.rows[d][i] = responses[i].rows[d]
    /\ \A i \in DOMAIN responses :
         Cardinality(DOMAIN combined_df.rows) <=
           Cardinality(DOMAIN responses[i].rows)
    /\ mu # NoEstimate => mu.prices = combined_df

\* C7 witness: the estimator got a table shorter than one of two series,
\* one of which had a missing close.
C7_Witness ==
  /\ EstimatorCalled
  /\ Len(responses) = 2
  /\ \E i \in DOMAIN responses :
       Cardinality(DOMAIN responses[i].rows) >
         Cardinality(DOMAIN combined_df.rows)
  /\ \E i \in DOMAIN responses : \E d \in DOMAIN responses[i].rows :
       responses[i].rows[d] = NaN

\* A fetch that failed or returned no rows.
FailedOrEmpty(df) ==
  df.kind = "raise" \/ df.kind = "none" \/
  (df.kind = "frame" /\ DOMAIN df.rows = {})

\* C8: in a portfolio request the fetches are issued in list order, at most
\* one is in flight, the next is issued only after the previous returned,
\* and once a fetch failed or returned no rows the request has returned a
\* string naming that symbol and no later symbol is fetched.
C8_SequentialFetches ==
  tool \in PortfolioTools =>
    /\ Cardinality(inflight) <= 1
    /\ \A k \in DOMAIN FetchCalls :
         FetchCalls[k].pos = k /\ FetchCalls[k].arg = args.symbols[k]
    /\ Len(FetchCalls) <= Len(responses) + 1
    /\ inflight # {} => /\ inflight = {Len(responses) + 1}
                        /\ Len(FetchCalls) = Len(responses) + 1
    /\ \A k \in DOMAIN responses :
         FailedOrEmpty(responses[k]) =>
           /\ Done
           /\ result.kind = "text"
           /\ args.symbols[k] \in Range(result.text)
           /\ Len(FetchCalls) = k
           /\ Len(responses) = k

\* C8 witness: the first of two symbols failed and the request returned
\* without fetching the second.
C8_Witness ==
  /\ tool \in PortfolioTools
  /\ Done
  /\ Len(args.symbols) = 2
  /\ Len(responses) = 1
  /\ responses[1].kind = "raise"

\* C9: no fetch is attempted twice within a request, and a fetch that
\* raised makes the request return a failure string with nothing fetched
\* after it.
C9_NoRetry ==
  /\ \A j, k \in DOMAIN FetchCalls : j # k => FetchCalls[j].pos # FetchCalls[k].pos
  /\ tool \in DataTools => Len(FetchCalls) <= 1
  /\ tool \in PortfolioTools => Len(FetchCalls) <= Len(args.symbols)
  /\ \A k \in DOMAIN responses :
       responses[k].kind = "raise" =>
         /\ Done
         /\ result.kind = "text"
         /\ result.text[1] = "Error"
         /\ k = Len(responses)
         /\ Len(FetchCalls) = k

\* C9 witness: the second fetch of calculate_returns raised.
C9_Witness ==
  /\ tool = "calculate_returns"
  /\ Done
  /\ Len(responses) = 2
  /\ responses[2].kind = "raise"

\* "No ... data found ..."
MatchesNoDataFound(words) ==
  /\ words[1] = "No"
  /\ \E i \in 2..(Len(words) - 1) : words[i] = "data" /\ words[i + 1] = "found"

EmptyAnswer(df) ==
  df.kind = "none" \/ (df.kind = "frame" /\ DOMAIN df.rows = {})

HasDataRows(df) == df.kind = "frame" /\ DOMAIN df.rows # {}

\* C10 (as claimed): a fetch that returned None or no rows yields a
\* "No ... data found ..." string.
C10_NoDataFoundString ==
  (Done /\ responses # <<>> /\ EmptyAnswer(Last(responses))) =>
    /\ result.kind = "text"
    /\ MatchesNoDataFound(result.text)

\* C10 (amended): a fetch that returned None or no rows yields a string
\* "No ... found ..." ("No ... data found ..." for every tool but
\* get_fund_listing and search_funds, which say "No funds found ..."), never
\* an "Error ..." string or JSON; a fetch that raised yields an "Error ..."
\* string, never the no-data string; and a JSON array is never empty.
C10_NoDataVersusError ==
  (Done /\ responses # <<>>) =>
    /\ EmptyAnswer(Last(responses)) =>
         /\ result.kind = "text"
         /\ result.text[1] = "No"
         /\ "found" \in Range(result.text)
         /\ IF tool \in {"get_fund_listing", "search_funds"}
            THEN SubSeq(result.text, 1, 3) = <<"No", "funds", "found">>
            ELSE MatchesNoDataFound(result.text)
    /\ Last(responses).kind = "raise" =>
         /\ result.kind = "text"
         /\ result.text[1] = "Error"
    /\ (result.kind = "json" /\ tool \in DataTools) =>
         /\ HasDataRows(Last(responses))
         /\ result.json.records # <<>>

\* C10 witness: get_fund_listing returned after a fetch without rows.
C10_Witness ==
  /\ Done
  /\ tool = "get_fund_listing"
  /\ responses # <<>>
  /\ Last(responses).kind = "frame"
  /\ EmptyAnswer(Last(responses))

\* The stage a library call belongs to: 1 fetch, 2 align/clean, 3 estimate,
\* 4 optimize.
StageOf(c) ==
  IF IsFetch(c) THEN 1
  ELSE IF c.source = "pandas" THEN 2
  ELSE IF c.call \in Range(Objectives) THEN 4
  ELSE 3

OptimizerCalled == \E i \in DOMAIN calls : StageOf(calls[i]) = 4

StagesInOrder ==
  /\ \A i, j \in DOMAIN calls : i < j => StageOf(calls[i]) <= StageOf(calls[j])
  /\ EstimatorCalled =>
       /\ Len(responses) = Len(args.symbols)
       /\ \A i \in DOMAIN responses : HasRows(responses[i])
       /\ Len(all_data) = Len(args.symbols)
       /\ DOMAIN combined_df.rows # {}
       /\ \E i \in DOMAIN calls : calls[i].call = "dropna"
  /\ OptimizerCalled => mu # NoEstimate /\ S # NoEstimate

\* C14 (as claimed): in a portfolio request the calls run in the order fetch,
\* align/clean, estimate, optimize; the estimator runs only after every
\* symbol was fetched with rows and the cleaned table is non-empty, the
\* optimizer only after both estimates, and a JSON result is produced only
\* after the optimizer has run.
C14_StagesThenJson ==
  tool \in PortfolioTools =>
    /\ StagesInOrder
    /\ result.kind = "json" => OptimizerCalled

\* C14 (amended): as above, except that calculate_returns has no optimizer
\* stage and computes no covariance matrix: its JSON result is produced
\* right after the return vector; the JSON of optimize_portfolio follows its
\* solve and the JSON of full_portfolio_optimization follows the solves of
\* all three objectives.
C14_StagesInOrder ==
  tool \in PortfolioTools =>
    /\ StagesInOrder
    /\ result.kind = "json" =>
         /\ mu # NoEstimate
         /\ CASE tool = "calculate_returns" ->
                   ~OptimizerCalled /\ S = NoEstimate
              [] tool = "optimize_portfolio" ->
                   Last(calls).call = "max_sharpe"
              [] tool = "full_portfolio_optimization" ->
                   \A o \in ObjectiveSet :
                     \E i \in DOMAIN calls : calls[i].call = o

\* C14 witness: calculate_returns returned JSON for two fetched symbols.
C14_Witness ==
  /\ Done
  /\ tool = "calculate_returns"
  /\ result.kind = "json"
  /\ Len(responses) = 2

CallCount(name) == Cardinality({i \in DOMAIN calls : calls[i].call = name})

RiskModelCalls ==
  {i \in DOMAIN calls : calls[i].source = "pypfopt" /\ StageOf(calls[i]) = 3
                         /\ calls[i].call # "mean_historical_return"}

\* C15: in full_portfolio_optimization the return vector and the covariance
\* matrix are estimated once, each objective is solved once, on the pair
\* (mu, S) of the request, and the entry reported for an objective is fixed
\* by that objective's own solve alone, whatever the other entries are.
C15_ObjectivesShareEstimates ==
  tool = "full_portfolio_optimization" =>
    /\ CallCount("mean_historical_return") <= 1
    /\ Cardinality(RiskModelCalls) <= 1
    /\ \A o \in ObjectiveSet : CallCount(o) <= 1
    /\ \A o \in DOMAIN optimizations :
         LET solved == Solve(o, MeanHistoricalReturn(combined_df, args.log_returns),
                             CovarianceFor(args.covariance_method, combined_df),
                             args)
         IN /\ solved \in DOMAIN library
            /\ optimizations[o] =
                 IF library[solved] = NoExc THEN SuccessEntry(o, solved)
                 ELSE FailureEntry(o, library[solved])
            /\ optimizations[o].success =>
                 /\ optimizations[o].weights.clean_weights.mu = mu
                 /\ optimizations[o].weights.clean_weights.S = S

\* C15 witness: min_volatility succeeded after max_sharpe failed and before
\* max_utility failed.
C15_Witness ==
  /\ Done
  /\ tool = "full_portfolio_optimization"
  /\ result.kind = "json"
  /\ ~result.json.optimized_portfolios["max_sharpe"].success
  /\ result.json.optimized_portfolios["min_volatility"].success
  /\ ~result.json.optimized_portfolios["max_utility"].success

\* The spellings of the Vietnamese indices among the model's symbols.
VietnamIndexSpellings ==
  {"VNINDEX", "vnindex", "HNXINDEX", "UPCOMINDEX"}

\* C17: get_index_history makes at most one fetch per call, on the VCI quote
\* source when the symbol is VNINDEX, HNXINDEX or UPCOMINDEX in any case and
\* on the MSN world-index source otherwise, and a failed or empty fetch is
\* not followed by another.
C17_OneIndexSource ==
  tool = "get_index_history" =>
    /\ Len(FetchCalls) <= 1
    /\ Len(responses) <= Len(FetchCalls)
    /\ \A k \in DOMAIN FetchCalls :
         IF args.symbol \in VietnamIndexSpellings
         THEN /\ FetchCalls[k].source = "VCI"
              /\ FetchCalls[k].call = "quote.history"
         ELSE /\ FetchCalls[k].source = "MSN"
              /\ FetchCalls[k].call = "index.quote.history"
    /\ (Done /\ responses # <<>>) => Len(FetchCalls) = 1

\* C17 witness: the VCI fetch for the lower-case "vnindex" raised and the
\* tool returned.
C17_Witness ==
  /\ Done
  /\ tool = "get_index_history"
  /\ args.symbol = "vnindex"
  /\ responses # <<>>
  /\ Last(responses).kind = "raise"
  /\ FetchCalls[1].source = "VCI"

Ascending(seq) == \A i, j \in DOMAIN seq : i < j => seq[i] <= seq[j]

SortingTools == FinanceTools \cup {"get_financial_ratios"}

C20_ThreeWellFormedEntries ==
  (tool = "full_portfolio_optimization" /\ result.kind = "json") =>
    /\ DOMAIN result.json.optimized_portfolios = ObjectiveSet
    /\ \A o \in ObjectiveSet :
         LET entry == result.json.optimized_portfolios[o]
         IN IF entry.success
            THEN /\ DOMAIN entry =
                      {"success", "weights", "expected_annual_return",
                       "annual_volatility", "sharpe_ratio", "optimization_type"}
                 /\ entry.optimization_type = o
            ELSE /\ DOMAIN entry = {"success", "error"}
                 /\ entry.error # <<>>

\* C20 witness: a JSON response in which every objective failed.
C20_Witness ==
  /\ tool = "full_portfolio_optimization"
  /\ result.kind = "json"
  /\ \A o \in ObjectiveSet : ~result.json.optimized_portfolios[o].success

RECURSIVE SumDict(_)
SumDict(d) ==
  IF DOMAIN d = {} THEN 0
  ELSE LET k == CHOOSE x \in DOMAIN d : TRUE
       IN d[k] + SumDict([x \in DOMAIN d \ {k} |-> d[x]])

\* The tolerance of the claim: 0.0001 per asset.
Tolerance == Unit \div 10000

WeightsReported == pc = "rounded"

\* C13 (as claimed): the weights reported for a solve have no negative
\* entry and sum to 1.0 within 0.0001 times the number of assets, after
\* cleaning and rounding to 4 decimals.
C13_WeightsSumToOne ==
  WeightsReported =>
    /\ \A k \in DOMAIN rounded_weights : rounded_weights[k] >= 0
    /\ Abs(SumDict(rounded_weights) - Unit) <= Tolerance * Len(tickers)

\* The same, for requests that list no symbol twice.
WeightsSumForDistinctSymbols ==
  (WeightsReported /\ Cardinality(Range(tickers)) = Len(tickers)) =>
    /\ \A k \in DOMAIN rounded_weights : rounded_weights[k] >= 0
    /\ Abs(SumDict(rounded_weights) - Unit) <= Tolerance * Len(tickers)

\* An invocation is fetching or computing.
Working(i) == tasks[i].pc \in {"fetching", "await", "compute"}

\* C11 (as claimed): whenever an invocation is fetching or computing, the
\* work runs in the executor and the event loop is not held by it, so the
\* server can start or resume another invocation.
C11_WorkOffLoop == \A i \in Tasks : Working(i) => loop # i

\* The estimation and the solve of a portfolio tool, taken alone.
ComputeOffLoop == \A i \in Tasks : tasks[i].pc = "compute" => loop # i

\* The fetches handed to run_in_executor do leave the loop free.
FetchesOffLoop == \A i \in Tasks : tasks[i].pc = "await" => loop # i

SameInputs(a, b) ==
  /\ a.tool = b.tool
  /\ a.args = b.args
  /\ a.clients = b.clients
  /\ a.responses = b.responses
  /\ a.answers = b.answers

\* C12: under every interleaving of the invocations, an invocation's result
\* is fixed by its own parameters and by the answers to its own calls: two
\* invocations with the same parameters and answers return the same value
\* whatever ran beside them, an invocation's frames are those of its own
\* symbols and fetches, and once an invocation has returned, with a failure
\* or not, it holds neither the loop nor the executor and the process goes
\* on serving.
C12_OwnInputsOnly ==
  /\ \A i, j \in Tasks :
       (tasks[i].pc = "done" /\ tasks[j].pc = "done"
          /\ SameInputs(tasks[i], tasks[j]))
         => tasks[i].result = tasks[j].result
  /\ \A i \in Tasks :
       LET task == tasks[i]
       IN /\ task.pc = "done" => loop # i /\ i \notin executor
          /\ task.pc # "idle" => process = "serving"
          /\ Len(task.all_data) <= Len(task.responses)
          /\ \A k \in DOMAIN task.all_data :
               /\ task.all_data[k].column = task.args.symbols[k]
               /\ task.all_data[k].close = task.responses[k].rows
          /\ (task.pc = "done" /\ task.tool \in DataTools
                /\ task.responses # <<>>)
               => task.result = AfterFetch(task.tool, task.args,
                                           task.responses[1],
                                           task.answers[1]).result
          /\ (task.pc = "done" /\ task.tool \in PortfolioTools
                /\ task.answers # <<>>)
               => task.result =
                    OptimizeResult(task.tool, task.args,
                                   DropNa(Concat(
                                     [k \in DOMAIN task.responses |->
                                        DfClean(task.responses[k],
                                                task.args.symbols[k])])),
                                   task.answers[1], task.answers[2],
                                   task.answers[3])

\* C12 witness: of two optimize_portfolio invocations with the same
\* parameters, the first returned a failure string and the second JSON.
C12_Witness ==
  /\ tasks[1].pc = "done"
  /\ tasks[2].pc = "done"
  /\ tasks[1].tool = "optimize_portfolio"
  /\ tasks[2].tool = "optimize_portfolio"
  /\ tasks[1].args = tasks[2].args
  /\ Len(tasks[1].args.symbols) = 2
  /\ tasks[1].result.kind = "text"
  /\ tasks[1].result.text[1] = "Error"
  /\ tasks[2].result.kind = "json"

\* C16 (as claimed): the fund handle is made at most once, and only once a
\* fund tool has used it.
C16_LazyOnce ==
  /\ fund.built <= 1
  /\ fund.built = 1 => fund.used

\* Fund() is called once, at import, and the handle every fund tool uses is
\* the one bound then.
FundBuiltAtImport ==
  /\ fund.built = (IF process = "importing" THEN 0 ELSE 1)
  /\ process = "serving" => fund.bound
  /\ fund.used => fund.bound

\* The second tool of SpecStage has ended its stage.
SecondStageEnded == prev # NoPrev /\ StageEnded

\* C21: for equal symbols, dates and data-source answers the three
\* portfolio tools end their fetch-and-clean stage alike: the second tool
\* issues the fetches the first issued and consumes the same answers, it
\* returns a string exactly when the first did and then the identical
\* string, and otherwise it reaches the estimator with the same cleaned
\* table; before that it has an answer of the first tool left to consume.
C21_SameStage ==
  /\ SecondStageEnded =>
       /\ pc = prev.pc
       /\ result = prev.result
       /\ combined_df = prev.combined_df
       /\ responses = prev.responses
       /\ clients = prev.clients
       /\ calls = prev.calls
  /\ (prev # NoPrev /\ pc = "fetch") =>
       Len(responses) < Len(prev.responses)
  /\ (prev # NoPrev /\ pc = "clean") =>
       /\ responses = prev.responses
       /\ prev.pc = "estimate" \/ prev.result = Text(NoCompleteDataText)

\* C21 witness: after optimize_portfolio, calculate_returns reached the
\* estimator on two symbols with a table that has a row.
C21_Witness ==
  /\ SecondStageEnded
  /\ prev.tool = "optimize_portfolio"
  /\ tool = "calculate_returns"
  /\ Len(args.symbols) = 2
  /\ pc = "estimate"
  /\ DOMAIN combined_df.rows # {}

====
